---- MODULE Spec2Model ----
(***************************************************************************)
(* Model of run_double_auction (order_book_basic.py): a double-auction     *)
(* P2P energy market with FCFS matching and grid settlement.               *)
(*                                                                         *)
(* Numbers are exact fixed-point values:                                   *)
(*   - a quantity of 1 stands for 5e-10 kWh, so the source's threshold     *)
(*     1e-9 is EPS = 2 and quantities below the threshold exist;           *)
(*   - alpha is alpha / AlphaDen; every money amount (p2p_price,           *)
(*     period_financials, financial_results) is stored times AlphaDen.     *)
(* A spreadsheet cell is a number, NaN (an empty cell) or a string.        *)
(***************************************************************************)
EXTENDS Integers, Sequences, FiniteSets

\* ---------------------------------------------------------------- bounds
NumAgents == 4
MaxQty == 4
MaxPrice == 2
AlphaDen == 2
PricedAgents == 2
RunAgents == 2
RunPeriods == 2

\* 1e-9 in quantity units of 5e-10 (line 101, 104)
EPS == 2

\* pc                 position in run_double_auction: load, for, while, store,
\*                    done, returned (line 22), raised (uncaught exception),
\*                    save_error (line 136)
\* df                 the input table (line 19): agent columns and period rows
\* alpha              the alpha argument, as a numerator over AlphaDen (line 5)
\* agent_ids          line 28
\* financial_results  the result table (lines 32-36, 129)
\* index              number of rows already processed (line 41)
\* fit, tou           the row's export and import price (lines 43-44)
\* p2p_price          line 49
\* buy_orders, sell_orders, buyer_idx, seller_idx   lines 54-72, 96-105
\* period_financials  line 75
\* trades             the trades executed by lines 86-97 in this period
\* settlements        the grid settlements made by lines 111-125
\* output             the table written by to_csv (line 133), <<>> if none
VARIABLES pc, df, alpha, agent_ids, financial_results, index, fit, tou,
          p2p_price, buy_orders, sell_orders, buyer_idx, seller_idx,
          period_financials, trades, settlements, output

vars == <<pc, df, alpha, agent_ids, financial_results, index, fit, tou,
          p2p_price, buy_orders, sell_orders, buyer_idx, seller_idx,
          period_financials, trades, settlements, output>>

\* ----------------------------------------------------------------- cells
Num(n) == [t |-> "num", v |-> n]
NaN == [t |-> "nan", v |-> 0]
Str == [t |-> "str", v |-> 0]

IsNum(c) == c.t = "num"

\* float arithmetic on cells: NaN is absorbing
CAdd(a, b) == IF IsNum(a) /\ IsNum(b) THEN Num(a.v + b.v) ELSE NaN
CSub(a, b) == IF IsNum(a) /\ IsNum(b) THEN Num(a.v - b.v) ELSE NaN
CMul(a, b) == IF IsNum(a) /\ IsNum(b) THEN Num(a.v * b.v) ELSE NaN

\* `quantity > 0` and `quantity < 0`: every comparison with NaN is False
GT0(c) == IsNum(c) /\ c.v > 0
LT0(c) == IsNum(c) /\ c.v < 0

Abs(n) == IF n < 0 THEN -n ELSE n
Min(a, b) == IF a <= b THEN a ELSE b

\* a string cell makes `tou - fit` or `quantity > 0` raise TypeError
Raises(row) ==
    \/ row.fit = Str
    \/ row.tou = Str
    \/ \E a \in DOMAIN row.q : row.q[a] = Str

\* p2p_price = fit + alpha * (tou - fit), times AlphaDen
P2PPrice(f, t, al) == CAdd(CMul(Num(AlphaDen), f), CMul(Num(al), CSub(t, f)))

\* the buy book: agents with quantity > 0, in column order
RECURSIVE BuyOrders(_, _)
BuyOrders(q, k) ==
    IF k = 0 THEN <<>>
    ELSE IF GT0(q[k]) THEN Append(BuyOrders(q, k - 1), [agent |-> k, qty |-> q[k].v])
         ELSE BuyOrders(q, k - 1)

\* the sell book: agents with quantity < 0, in column order, abs(quantity)
RECURSIVE SellOrders(_, _)
SellOrders(q, k) ==
    IF k = 0 THEN <<>>
    ELSE IF LT0(q[k]) THEN Append(SellOrders(q, k - 1), [agent |-> k, qty |-> Abs(q[k].v)])
         ELSE SellOrders(q, k - 1)

TradeQty(buyer_qty, seller_qty) == Min(buyer_qty, seller_qty)

BuyerPays(trade_qty, price) == CMul(Num(trade_qty), price)

SellerEarnsPriceOnly(trade_qty, price) == price

SellerEarns(trade_qty, price) == CMul(Num(trade_qty), price)

RetiredBelowZero(rem) == rem < 0

\* `< 1e-9`: the order is treated as fully satisfied
Retired(rem) == rem < EPS

GridCost(rem_qty, t) == CMul(Num(rem_qty * AlphaDen), t)

GridRevenue(rem_qty, f) == CMul(Num(rem_qty * AlphaDen), f)

\* for b_idx in range(buyer_idx, len(buy_orders)), 0-based; k orders done
RECURSIVE SettleBuys(_, _, _, _)
SettleBuys(pf, orders, from, k) ==
    IF k <= from THEN pf
    ELSE LET prev == SettleBuys(pf, orders, from, k - 1)
             o == orders[k]
         IN IF o.qty > 0
            THEN [prev EXCEPT ![o.agent] = CSub(@, GridCost(o.qty, tou))]
            ELSE prev

RECURSIVE SettleSells(_, _, _, _)
SettleSells(pf, orders, from, k) ==
    IF k <= from THEN pf
    ELSE LET prev == SettleSells(pf, orders, from, k - 1)
             o == orders[k]
         IN IF o.qty > 0
            THEN [prev EXCEPT ![o.agent] = CAdd(@, GridRevenue(o.qty, fit))]
            ELSE prev

\* the grid settlements the two loops perform, in order
RECURSIVE Settled(_, _, _, _)
Settled(orders, from, k, side) ==
    IF k <= from THEN <<>>
    ELSE LET prev == Settled(orders, from, k - 1, side)
             o == orders[k]
         IN IF o.qty > 0
            THEN Append(prev, [agent |-> o.agent, side |-> side, qty |-> o.qty])
            ELSE prev

\* ------------------------------------------------------------------ input
QtyCells == {Num(n) : n \in (0 - MaxQty)..MaxQty}
PriceCells == {Num(n) : n \in 0..MaxPrice}

Rows(agents, prices, qtys) == [fit : prices, tou : prices, q : [agents -> qtys]]

RunQtyCells == {Num(1), Num(0 - 1), NaN, Str}
RunPriceCells == {Num(1), Num(2), NaN}

InitRest ==
    /\ pc = "load"
    /\ agent_ids = {}
    /\ financial_results = <<>>
    /\ index = 0
    /\ fit = NaN
    /\ tou = NaN
    /\ p2p_price = NaN
    /\ buy_orders = <<>>
    /\ sell_orders = <<>>
    /\ buyer_idx = 0
    /\ seller_idx = 0
    /\ period_financials = <<>>
    /\ trades = <<>>
    /\ settlements = <<>>
    /\ output = <<>>

\* one well-formed period with a deep order book: NumAgents participants,
\* every quantity, import_price one unit above export_price
InitBook ==
    /\ alpha \in 0..AlphaDen
    /\ \E r \in Rows(1..NumAgents, {Num(MaxPrice - 1)}, QtyCells) :
          df = [agents |-> 1..NumAgents, rows |-> <<[r EXCEPT !.tou = Num(MaxPrice)]>>]
    /\ InitRest

\* one well-formed period with PricedAgents participants and every pair of
\* prices (import_price below, equal to and above export_price)
InitPriced ==
    /\ alpha \in 0..AlphaDen
    /\ \E r \in Rows(1..PricedAgents, PriceCells, QtyCells) :
          df = [agents |-> 1..PricedAgents, rows |-> <<r>>]
    /\ InitRest

\* every alpha in [0,1] on the AlphaDen grid
Init == InitBook \/ InitPriced

\* a run over up to RunPeriods rows whose cells may be empty or strings
InitRun ==
    /\ alpha \in 0..AlphaDen
    /\ \E n \in 0..RunPeriods :
          \E rs \in [1..n -> Rows(1..RunAgents, RunPriceCells, RunQtyCells)] :
             df = [agents |-> 1..RunAgents, rows |-> rs]
    /\ InitRest

\* ---------------------------------------------------------------- actions
\* lines 18-38: read_excel succeeded
LoadOk ==
    /\ pc = "load"
    /\ agent_ids' = df.agents
    /\ financial_results' =
          [i \in 1..Len(df.rows) |-> [df.rows[i] EXCEPT !.q = [a \in df.agents |-> Num(0)]]]
    /\ pc' = "for"
    /\ UNCHANGED <<df, alpha, index, fit, tou, p2p_price, buy_orders, sell_orders,
                   buyer_idx, seller_idx, period_financials, trades, settlements, output>>

\* lines 20-22: read_excel raised; the function returns
LoadFail ==
    /\ pc = "load"
    /\ pc' = "returned"
    /\ UNCHANGED <<df, alpha, agent_ids, financial_results, index, fit, tou, p2p_price,
                   buy_orders, sell_orders, buyer_idx, seller_idx, period_financials,
                   trades, settlements, output>>

\* lines 41-75: next row, price, order books, cursors, period_financials
NextRow ==
    /\ pc = "for"
    /\ index < Len(df.rows)
    /\ LET row == df.rows[index + 1] IN
       /\ ~Raises(row)
       /\ fit' = row.fit
       /\ tou' = row.tou
       /\ p2p_price' = P2PPrice(row.fit, row.tou, alpha)
       /\ buy_orders' = BuyOrders(row.q, Cardinality(agent_ids))
       /\ sell_orders' = SellOrders(row.q, Cardinality(agent_ids))
    /\ buyer_idx' = 0
    /\ seller_idx' = 0
    /\ period_financials' = [a \in agent_ids |-> Num(0)]
    /\ trades' = <<>>
    /\ settlements' = <<>>
    /\ pc' = "while"
    /\ UNCHANGED <<df, alpha, agent_ids, financial_results, index, output>>

\* lines 49, 59, 63: an uncaught TypeError ends the run
RowRaise ==
    /\ pc = "for"
    /\ index < Len(df.rows)
    /\ Raises(df.rows[index + 1])
    /\ pc' = "raised"
    /\ UNCHANGED <<df, alpha, agent_ids, financial_results, index, fit, tou, p2p_price,
                   buy_orders, sell_orders, buyer_idx, seller_idx, period_financials,
                   trades, settlements, output>>

\* lines 78-105: one iteration of the matching loop
MatchStep ==
    /\ pc = "while"
    /\ buyer_idx < Len(buy_orders)
    /\ seller_idx < Len(sell_orders)
    /\ LET buyer_id == buy_orders[buyer_idx + 1].agent
           buyer_qty == buy_orders[buyer_idx + 1].qty
           seller_id == sell_orders[seller_idx + 1].agent
           seller_qty == sell_orders[seller_idx + 1].qty
           trade_qty == TradeQty(buyer_qty, seller_qty)
           paid == [period_financials EXCEPT
                      ![buyer_id] = CSub(@, BuyerPays(trade_qty, p2p_price))]
       IN
       /\ period_financials' =
             [paid EXCEPT ![seller_id] = CAdd(@, SellerEarns(trade_qty, p2p_price))]
       /\ buy_orders' = [buy_orders EXCEPT ![buyer_idx + 1].qty = @ - trade_qty]
       /\ sell_orders' = [sell_orders EXCEPT ![seller_idx + 1].qty = @ - trade_qty]
       /\ buyer_idx' = IF Retired(buyer_qty - trade_qty) THEN buyer_idx + 1 ELSE buyer_idx
       /\ seller_idx' = IF Retired(seller_qty - trade_qty) THEN seller_idx + 1 ELSE seller_idx
       /\ trades' = Append(trades, [buyer |-> buyer_id, seller |-> seller_id,
                                    qty |-> trade_qty, price |-> p2p_price])
    /\ UNCHANGED <<pc, df, alpha, agent_ids, financial_results, index, fit, tou,
                   p2p_price, settlements, output>>

\* lines 107-125: the loop has stopped; settle the orders from each cursor on
GridSettlement ==
    /\ pc = "while"
    /\ ~(buyer_idx < Len(buy_orders) /\ seller_idx < Len(sell_orders))
    /\ period_financials' =
          SettleSells(SettleBuys(period_financials, buy_orders, buyer_idx, Len(buy_orders)),
                      sell_orders, seller_idx, Len(sell_orders))
    /\ settlements' = Settled(buy_orders, buyer_idx, Len(buy_orders), "buy")
                      \o Settled(sell_orders, seller_idx, Len(sell_orders), "sell")
    /\ pc' = "store"
    /\ UNCHANGED <<df, alpha, agent_ids, financial_results, index, fit, tou, p2p_price,
                   buy_orders, sell_orders, buyer_idx, seller_idx, trades, output>>

\* lines 127-129: write the period's row of the result table
Store ==
    /\ pc = "store"
    /\ financial_results' = [financial_results EXCEPT ![index + 1].q = period_financials]
    /\ index' = index + 1
    /\ pc' = "for"
    /\ UNCHANGED <<df, alpha, agent_ids, fit, tou, p2p_price, buy_orders, sell_orders,
                   buyer_idx, seller_idx, period_financials, trades, settlements, output>>

\* lines 132-134: every row processed, to_csv succeeded
SaveOk ==
    /\ pc = "for"
    /\ index = Len(df.rows)
    /\ output' = <<financial_results>>
    /\ pc' = "done"
    /\ UNCHANGED <<df, alpha, agent_ids, financial_results, index, fit, tou, p2p_price,
                   buy_orders, sell_orders, buyer_idx, seller_idx, period_financials,
                   trades, settlements>>

\* lines 135-136: to_csv raised
SaveFail ==
    /\ pc = "for"
    /\ index = Len(df.rows)
    /\ pc' = "save_error"
    /\ UNCHANGED <<df, alpha, agent_ids, financial_results, index, fit, tou, p2p_price,
                   buy_orders, sell_orders, buyer_idx, seller_idx, period_financials,
                   trades, settlements, output>>

Next ==
    \/ LoadOk
    \/ LoadFail
    \/ NextRow
    \/ MatchStep
    \/ GridSettlement
    \/ Store
    \/ SaveOk
    \/ SaveFail

NextRun ==
    \/ LoadOk
    \/ LoadFail
    \/ NextRow
    \/ RowRaise
    \/ MatchStep
    \/ GridSettlement
    \/ Store
    \/ SaveOk
    \/ SaveFail

Spec == Init /\ [][Next]_vars

SpecRun == InitRun /\ [][NextRun]_vars

\* ------------------------------------------------------- derived quantities
\* the row of the period being processed
Row == df.rows[index + 1]

Net(a) == Row.q[a].v

InPeriod == pc \in {"while", "store"}

\* matching and grid settlement of the period have finished
PeriodDone == pc = "store"

RECURSIVE SumQty(_)
SumQty(s) == IF s = <<>> THEN 0 ELSE s[1].qty + SumQty(Tail(s))

RECURSIVE SumAbsNet(_)
SumAbsNet(k) == IF k = 0 THEN 0 ELSE Abs(Net(k)) + SumAbsNet(k - 1)

RECURSIVE SumFinancials(_)
SumFinancials(k) == IF k = 0 THEN 0 ELSE period_financials[k].v + SumFinancials(k - 1)

TradesOf(a) == SelectSeq(trades, LAMBDA t : t.buyer = a \/ t.seller = a)

SettlementsOf(a) == SelectSeq(settlements, LAMBDA g : g.agent = a)

RECURSIVE TradeValue(_, _)
TradeValue(s, a) ==
    IF s = <<>> THEN 0
    ELSE (IF s[1].seller = a THEN s[1].qty * s[1].price.v
          ELSE IF s[1].buyer = a THEN 0 - s[1].qty * s[1].price.v
          ELSE 0) + TradeValue(Tail(s), a)

NumAgentIds == Cardinality(agent_ids)

InitialBuys == BuyOrders(Row.q, NumAgentIds)

InitialSells == SellOrders(Row.q, NumAgentIds)

Malformed(row) ==
    \/ ~IsNum(row.fit)
    \/ ~IsNum(row.tou)
    \/ \E a \in DOMAIN row.q : ~IsNum(row.q[a])

\* ------------------------------------------------------------------ claims
\* C1: quantity conservation. Once matching and grid settlement of a period
\* have finished, sum |net_quantity| = 2 * sum of trade quantities + sum of
\* grid-settled quantities, and every participant's |net_quantity| is the
\* quantity it traded plus the quantity it settled with the grid.
C1_Conservation ==
    PeriodDone =>
       /\ SumAbsNet(NumAgentIds) = 2 * SumQty(trades) + SumQty(settlements)
       /\ \A a \in agent_ids :
             Abs(Net(a)) = SumQty(TradesOf(a)) + SumQty(SettlementsOf(a))

C3_ZeroSum ==
    pc = "while" =>
       /\ \A i \in 1..Len(trades) : trades[i].price = p2p_price
       /\ \A a \in agent_ids : period_financials[a] = Num(TradeValue(trades, a))
       /\ SumFinancials(NumAgentIds) = 0

C3_Witness ==
    /\ pc = "while"
    /\ Len(trades) >= 2
    /\ p2p_price.v > 0
    /\ trades[1].qty # trades[2].qty

\* C4: price bound. In a period in which a trade occurs the clearing price
\* lies in [export_price, import_price], equals export_price for alpha = 0
\* and import_price for alpha = 1, and is the same for every trade.
C4_PriceBound ==
    (InPeriod /\ trades # <<>>) =>
       /\ fit.v * AlphaDen <= p2p_price.v
       /\ p2p_price.v <= tou.v * AlphaDen
       /\ alpha = 0 => p2p_price.v = fit.v * AlphaDen
       /\ alpha = AlphaDen => p2p_price.v = tou.v * AlphaDen
       /\ \A i \in 1..Len(trades) : trades[i].price = p2p_price

\* C5: grid settlement of residuals. When the period is finished every buy
\* order with remaining quantity > 0 has been debited remaining * import_price
\* and every sell order with remaining quantity > 0 credited
\* remaining * export_price, exactly once; a fully matched order has no grid
\* settlement.
C5_GridSettlement ==
    PeriodDone =>
       /\ \A k \in 1..Len(buy_orders) :
             LET o == buy_orders[k] IN
             /\ o.qty > 0 =>
                   /\ SettlementsOf(o.agent) = <<[agent |-> o.agent, side |-> "buy", qty |-> o.qty]>>
                   /\ period_financials[o.agent] =
                         Num(TradeValue(trades, o.agent) - o.qty * tou.v * AlphaDen)
             /\ o.qty = 0 =>
                   /\ SettlementsOf(o.agent) = <<>>
                   /\ period_financials[o.agent] = Num(TradeValue(trades, o.agent))
       /\ \A k \in 1..Len(sell_orders) :
             LET o == sell_orders[k] IN
             /\ o.qty > 0 =>
                   /\ SettlementsOf(o.agent) = <<[agent |-> o.agent, side |-> "sell", qty |-> o.qty]>>
                   /\ period_financials[o.agent] =
                         Num(TradeValue(trades, o.agent) + o.qty * fit.v * AlphaDen)
             /\ o.qty = 0 =>
                   /\ SettlementsOf(o.agent) = <<>>
                   /\ period_financials[o.agent] = Num(TradeValue(trades, o.agent))

\* C6: one-sided exhaustion. When the matching loop has ended at least one
\* queue is fully exhausted (cursor at the end, no order with remaining
\* quantity), both are exhausted exactly when total buy volume equals total
\* sell volume, and the period never settles both a buyer and a seller
\* residual with the grid.
BuyExhausted ==
    /\ buyer_idx = Len(buy_orders)
    /\ \A k \in 1..Len(buy_orders) : buy_orders[k].qty = 0

SellExhausted ==
    /\ seller_idx = Len(sell_orders)
    /\ \A k \in 1..Len(sell_orders) : sell_orders[k].qty = 0

C6_OneSidedExhaustion ==
    PeriodDone =>
       /\ BuyExhausted \/ SellExhausted
       /\ (BuyExhausted /\ SellExhausted) <=> (SumQty(InitialBuys) = SumQty(InitialSells))
       /\ ~(/\ \E i \in 1..Len(settlements) : settlements[i].side = "buy"
            /\ \E i \in 1..Len(settlements) : settlements[i].side = "sell")

\* C7: malformed input fails the run. If any row holds a missing price or a
\* missing or non-numeric quantity, the run does not complete and no result
\* table is written.
C7_MalformedFails ==
    (\E i \in 1..Len(df.rows) : Malformed(df.rows[i])) =>
       /\ output = <<>>
       /\ pc # "done"

\* C8: FCFS priority. A buyer has traded only if every buyer before it in
\* participant order is fully filled (same for sellers); at the end of the
\* period at most one buyer and at most one seller are partially filled, and
\* every order after a partially filled one is settled entirely with the grid.
PartiallyFilled(orders, initial, k) ==
    /\ orders[k].qty > 0
    /\ orders[k].qty < initial[k].qty

C8_Priority(orders, initial) ==
    /\ \A k \in 1..Len(orders) :
          orders[k].qty < initial[k].qty => \A j \in 1..(k - 1) : orders[j].qty = 0
    /\ Cardinality({k \in 1..Len(orders) : PartiallyFilled(orders, initial, k)}) <= 1
    /\ \A k \in 1..Len(orders) :
          PartiallyFilled(orders, initial, k) =>
             \A j \in (k + 1)..Len(orders) :
                /\ orders[j].qty = initial[j].qty
                /\ SumQty(SettlementsOf(orders[j].agent)) = initial[j].qty

C8_FCFS ==
    PeriodDone =>
       /\ C8_Priority(buy_orders, InitialBuys)
       /\ C8_Priority(sell_orders, InitialSells)

\* C9: bounded termination of matching. Every trade has quantity > 0, every
\* iteration has advanced at least one cursor, an order that has traded does
\* not stay at a cursor with remaining quantity below the threshold, and the
\* number of trades never exceeds |buy_orders| + |sell_orders| - 1; when the
\* loop has ended with mismatched total volumes it is at least
\* min(|buy_orders|, |sell_orders|) - 1.
AtCursorOk(orders, idx, initial) ==
    idx < Len(orders) =>
       /\ orders[idx + 1].qty > 0
       /\ orders[idx + 1].qty >= EPS \/ orders[idx + 1].qty = initial[idx + 1].qty

C9_BoundedMatching ==
    InPeriod =>
       /\ \A i \in 1..Len(trades) : trades[i].qty > 0
       /\ Len(trades) <= buyer_idx + seller_idx
       /\ buyer_idx <= Len(buy_orders)
       /\ seller_idx <= Len(sell_orders)
       /\ AtCursorOk(buy_orders, buyer_idx, InitialBuys)
       /\ AtCursorOk(sell_orders, seller_idx, InitialSells)
       /\ trades # <<>> => Len(trades) <= Len(buy_orders) + Len(sell_orders) - 1
       /\ (PeriodDone /\ SumQty(InitialBuys) # SumQty(InitialSells)) =>
             /\ Len(trades) >= Min(Len(buy_orders), Len(sell_orders)) - 1
             /\ Len(trades) <= Len(buy_orders) + Len(sell_orders) - 1

C9_Witness ==
    /\ PeriodDone
    /\ SumQty(InitialBuys) # SumQty(InitialSells)
    /\ Len(trades) >= 3
    /\ Len(trades) = Len(buy_orders) + Len(sell_orders) - 1

\* C10: P2P is beneficial to both sides. In a period with
\* import_price > export_price a buyer's delta is at least
\* -net_quantity * import_price, a seller's at least
\* |net_quantity| * export_price, and a participant with net_quantity = 0 has
\* delta 0.
C10_Beneficial ==
    (PeriodDone /\ tou.v > fit.v) =>
       \A a \in agent_ids :
          /\ Net(a) > 0 => period_financials[a].v >= 0 - Net(a) * tou.v * AlphaDen
          /\ Net(a) < 0 => period_financials[a].v >= Abs(Net(a)) * fit.v * AlphaDen
          /\ Net(a) = 0 => period_financials[a] = Num(0)

====
